---- MODULE Spec2Model ----
(***************************************************************************)
(* State-machine model of the texture core of three-d                      *)
(* (src/src/core/texture.rs): texture construction and destruction, pixel  *)
(* upload (fill), read-back, render-target write and copy.                 *)
(*                                                                         *)
(* The graphics context is a record threaded through every operation       *)
(* (bindings, native handles, the driver calls issued so far), so that an   *)
(* operation of the source is one operator whose body follows the source   *)
(* line by line, and one action commits its outcome.                       *)
(*                                                                         *)
(* Pixel data is modelled by its length and by the index ranges of the     *)
(* slices handed to the driver; element values never influence control     *)
(* flow in texture.rs.                                                     *)
(***************************************************************************)
EXTENDS Integers, Sequences, FiniteSets, TLC

(* ------------------------------ bounds -------------------------------- *)
\* texture objects alive at the same time
MaxTextures == 2
\* native handles the driver hands out in one run
MaxHandles == 3
\* largest width / height / layer count
MaxDim == 2
\* how far a data length may exceed the length of one full image set
MaxExtra == 6
\* how far a data length may fall short of it
MaxShort == 1
\* largest viewport offset and viewport extent
MaxView == 1

Slots == 1 .. MaxTextures
Handles == 1 .. MaxHandles
Dims == 1 .. MaxDim

(* --------------------------- program values --------------------------- *)
Formats == {"R", "RG", "RGB", "RGBA"}
MipFilters == {"None", "Linear"}
TEXTURE_2D == "TEXTURE_2D"
TEXTURE_CUBE_MAP == "TEXTURE_CUBE_MAP"
TEXTURE_2D_ARRAY == "TEXTURE_2D_ARRAY"
TEXTURE_CUBE_MAP_POSITIVE_X == "TEXTURE_CUBE_MAP_FACE"
DRAW_FRAMEBUFFER == "DRAW_FRAMEBUFFER"
READ_FRAMEBUFFER == "READ_FRAMEBUFFER"
TexTargets == {TEXTURE_2D, TEXTURE_CUBE_MAP, TEXTURE_2D_ARRAY}
FbTargets == {DRAW_FRAMEBUFFER, READ_FRAMEBUFFER}
WriteMask_DEPTH == "DEPTH"
WriteMasks == {"COLOR", "DEPTH", "COLOR_AND_DEPTH", "NONE"}

\* the absence of a texture object
NoTexture ==
  [kind |-> "None", id |-> 0, width |-> 0, height |-> 0, depth |-> 0,
   format |-> "None", number_of_mip_maps |-> 0]

NoView == [x |-> 0, y |-> 0, width |-> 0, height |-> 0]

Viewports ==
  [x : 0 .. MaxView, y : 0 .. MaxView, width : 0 .. MaxView, height : 0 .. MaxView]

VARIABLES
  textures,     \* Slots -> the texture object living there, or NoTexture
  nextId,       \* number of native handles the driver has handed out
  deleted,      \* Handles -> number of delete_texture calls on the handle
  constructed,  \* history: handles of the textures a constructor returned
  boundTex,     \* TexTargets -> handle bound to the target (0: none)
  boundFb,      \* FbTargets -> framebuffer bound to the target (0: screen)
  last          \* the operation that ran last, its result and driver calls

vars == <<textures, nextId, deleted, constructed, boundTex, boundFb, last>>

(* ------------------------- the graphics context ----------------------- *)
\* One driver call as it is logged: the function, its target (or, for a
\* copy, its write mask), the handle, face or framebuffer it names, an index
\* range or level count, and a rectangle.
Call(fn, target, id, a, b) ==
  [fn |-> fn, target |-> target, id |-> id, a |-> a, b |-> b, view |-> NoView]

CallView(fn, target, id, view) ==
  [fn |-> fn, target |-> target, id |-> id, a |-> 0, b |-> 0, view |-> view]

\* The context an operation starts from: the bindings and handles of the
\* current state, and no call issued yet.
Ctx ==
  [tex |-> boundTex, fb |-> boundFb, deleted |-> deleted,
   nextId |-> nextId, calls |-> <<>>]

Log(c, call) == [c EXCEPT !.calls = Append(@, call)]

create_texture(c) ==
  Log([c EXCEPT !.nextId = @ + 1], Call("create_texture", "", c.nextId + 1, 0, 0))

\* Deleting a bound texture reverts the binding to 0.
delete_texture(c, id) ==
  Log([c EXCEPT !.deleted[id] = @ + 1,
                !.tex = [t \in TexTargets |-> IF c.tex[t] = id THEN 0 ELSE c.tex[t]]],
      Call("delete_texture", "", id, 0, 0))

bind_texture(c, target, id) ==
  Log([c EXCEPT !.tex[target] = id], Call("bind_texture", target, id, 0, 0))

generate_mipmap(c, target) ==
  Log(c, Call("generate_mipmap", target, c.tex[target], 0, 0))

tex_storage_2d(c, target, levels) ==
  Log(c, Call("tex_storage_2d", target, c.tex[target], levels, 0))

tex_storage_3d(c, target, levels) ==
  Log(c, Call("tex_storage_3d", target, c.tex[target], levels, 0))

bind_framebuffer(c, target, fb) ==
  Log([c EXCEPT !.fb[target] = fb], Call("bind_framebuffer", target, fb, 0, 0))

framebuffer_texture_2d(c, attachment, id) ==
  Log(c, Call("framebuffer_texture_2d", attachment, id, 0, 0))

(* ------------------------------ results ------------------------------- *)
Ok(c) == [ctx |-> c, ok |-> TRUE, err |-> "", tex |-> NoTexture, out |-> 0]
Err(c, e) == [ctx |-> c, ok |-> FALSE, err |-> e, tex |-> NoTexture, out |-> 0]
OkTex(c, t) == [ctx |-> c, ok |-> TRUE, err |-> "", tex |-> t, out |-> 0]
OkOut(c, n) == [ctx |-> c, ok |-> TRUE, err |-> "", tex |-> NoTexture, out |-> n]

(* ------------------------------ helpers ------------------------------- *)
Max(a, b) == IF a >= b THEN a ELSE b

color_channel_count(format) ==
  CASE format = "R" -> 1
    [] format = "RG" -> 2
    [] format = "RGB" -> 3
    [] format = "RGBA" -> 4

\* generate(context): a fresh native handle, or AllocationError when the
\* driver refuses (allocOk = FALSE).
generate(c, allocOk) ==
  IF allocOk THEN OkTex(create_texture(c), [NoTexture EXCEPT !.id = c.nextId + 1])
  ELSE Err(c, "AllocationError")

\* set_parameters binds the handle to its target and sets the sampler
\* parameters on it.
set_parameters(c, id, target) ==
  Log(bind_texture(c, target, id), Call("set_sampler_params", target, id, 0, 0))

\* bind_at: the handle bound to its target on the texture unit `location`.
bind_at(c, id, target, location) ==
  bind_texture(Log(c, Call("active_texture", "", location, 0, 0)), target, id)

RECURSIVE floor_log2(_)
floor_log2(n) == IF n <= 1 THEN 0 ELSE 1 + floor_log2(n \div 2)

calculate_number_of_mip_maps(mip_map_filter, width, height, depth) ==
  IF mip_map_filter = "None" THEN 1
  ELSE floor_log2(Max(Max(width, height), depth)) + 1

\* TRUE when the length is the one the texture needs.
check_data_length(width, height, depth, format, length) ==
  length = width * height * depth * color_channel_count(format)

\* TextureDataType::fill: one pixel upload of the elements lo+1 .. hi of the
\* data to the given target (face: the cube face, 0 for a 2D target).
T_fill(c, target, face, lo, hi) ==
  Log(c, Call("upload_pixels", target, face, lo, hi))

\* TextureDataType::read: one read_pixels of the viewport from the bound
\* read framebuffer into the pixel vector.
T_read(c, viewport) ==
  Log(c, CallView("read_pixels", READ_FRAMEBUFFER, c.fb[READ_FRAMEBUFFER], viewport))

\* A destructor that forgets the handle.
Texture_drop_leaks(c, self) == c

\* Drop: the one call every texture kind's destructor makes.
Texture_drop(c, self) == delete_texture(c, self.id)

(* ------------------------------ Texture2D ----------------------------- *)
Texture2D_generate_mip_maps(c, self) ==
  IF self.number_of_mip_maps > 1
  THEN generate_mipmap(bind_texture(c, TEXTURE_2D, self.id), TEXTURE_2D)
  ELSE c

\* Texture2D::fill that puts the texture bound before back when it is done.
Texture2D_fill_restores(c, self, len) ==
  IF ~check_data_length(self.width, self.height, 1, self.format, len)
  THEN Err(c, "DataLengthMismatch")
  ELSE LET c1 == bind_texture(c, TEXTURE_2D, self.id)
           c2 == T_fill(c1, TEXTURE_2D, 0, 0, len)
       IN Ok(bind_texture(Texture2D_generate_mip_maps(c2, self), TEXTURE_2D,
                          c.tex[TEXTURE_2D]))

\* Texture2D::fill with the bind issued before the length check.
Texture2D_fill_binds_first(c, self, len) ==
  LET c1 == bind_texture(c, TEXTURE_2D, self.id) IN
  IF ~check_data_length(self.width, self.height, 1, self.format, len)
  THEN Err(c1, "DataLengthMismatch")
  ELSE Ok(Texture2D_generate_mip_maps(T_fill(c1, TEXTURE_2D, 0, 0, len), self))

Texture2D_fill(c, self, len) ==
  IF ~check_data_length(self.width, self.height, 1, self.format, len)
  THEN Err(c, "DataLengthMismatch")
  ELSE LET c1 == bind_texture(c, TEXTURE_2D, self.id)
           c2 == T_fill(c1, TEXTURE_2D, 0, 0, len)
       IN Ok(Texture2D_generate_mip_maps(c2, self))

\* cpu: [width, height, format, mip_map_filter, len], len the length of
\* cpu_texture.data; allocOk, formatOk: whether generate and
\* T::internal_format succeed.
Texture2D_new(c, cpu, allocOk, formatOk) ==
  LET g == generate(c, allocOk) IN
  IF ~g.ok THEN g
  ELSE
    LET id == g.tex.id
        number_of_mip_maps ==
          calculate_number_of_mip_maps(cpu.mip_map_filter, cpu.width, cpu.height, 1)
        c1 == set_parameters(g.ctx, id, TEXTURE_2D)
    IN
    IF ~formatOk THEN Err(c1, "UnsupportedFormat")
    ELSE
      LET c2 == tex_storage_2d(c1, TEXTURE_2D, number_of_mip_maps)
          tex == [kind |-> "Texture2D", id |-> id, width |-> cpu.width,
                  height |-> cpu.height, depth |-> 1, format |-> cpu.format,
                  number_of_mip_maps |-> number_of_mip_maps]
          f == Texture2D_fill(c2, tex, cpu.len)
      IN
      IF ~f.ok THEN Err(Texture_drop(f.ctx, tex), f.err)
      ELSE OkTex(f.ctx, tex)


(* ------------------------- ColorTargetTexture2D ----------------------- *)
ColorTargetTexture2D_new(c, width, height, mip_map_filter, format, allocOk, formatOk) ==
  LET g == generate(c, allocOk) IN
  IF ~g.ok THEN g
  ELSE
    LET id == g.tex.id
        number_of_mip_maps ==
          calculate_number_of_mip_maps(mip_map_filter, width, height, 1)
        c1 == set_parameters(g.ctx, id, TEXTURE_2D)
    IN
    IF ~formatOk THEN Err(c1, "UnsupportedFormat")
    ELSE OkTex(tex_storage_2d(c1, TEXTURE_2D, number_of_mip_maps),
               [kind |-> "ColorTargetTexture2D", id |-> id, width |-> width,
                height |-> height, depth |-> 1, format |-> format,
                number_of_mip_maps |-> number_of_mip_maps])

ColorTargetTexture2D_bind_as_color_target(c, self, channel) ==
  framebuffer_texture_2d(c, "COLOR_ATTACHMENT", self.id)

(* ------------------------- DepthTargetTexture2D ----------------------- *)
DepthTargetTexture2D_new(c, width, height, allocOk) ==
  LET g == generate(c, allocOk) IN
  IF ~g.ok THEN g
  ELSE
    LET id == g.tex.id
        c1 == set_parameters(g.ctx, id, TEXTURE_2D)
    IN OkTex(tex_storage_2d(c1, TEXTURE_2D, 1),
             [kind |-> "DepthTargetTexture2D", id |-> id, width |-> width,
              height |-> height, depth |-> 1, format |-> "None",
              number_of_mip_maps |-> 1])

DepthTargetTexture2D_bind_as_depth_target(c, self) ==
  framebuffer_texture_2d(c, "DEPTH_ATTACHMENT", self.id)

(* ---------------------------- TextureCubeMap -------------------------- *)
TextureCubeMap_generate_mip_maps(c, self) ==
  IF self.number_of_mip_maps > 1
  THEN generate_mipmap(bind_texture(c, TEXTURE_CUBE_MAP, self.id), TEXTURE_CUBE_MAP)
  ELSE c

\* The six uploads of the loop `for i in 0..6`, from face i on.
RECURSIVE CubeFaces(_, _, _)
CubeFaces(c, offset, i) ==
  IF i >= 6 THEN c
  ELSE CubeFaces(T_fill(c, TEXTURE_CUBE_MAP_POSITIVE_X, i, i * offset, (i + 1) * offset),
                 offset, i + 1)

\* A cube map fill that regenerates the mip maps before the faces are
\* uploaded.
TextureCubeMap_fill_generates_first(c, self, len) ==
  LET offset == len \div 6 IN
  IF ~check_data_length(self.width, self.height, 1, self.format, offset)
  THEN Err(c, "DataLengthMismatch")
  ELSE LET c1 == bind_texture(c, TEXTURE_CUBE_MAP, self.id)
           c2 == TextureCubeMap_generate_mip_maps(c1, self)
       IN Ok(CubeFaces(c2, offset, 0))

TextureCubeMap_fill(c, self, len) ==
  LET offset == len \div 6 IN
  IF ~check_data_length(self.width, self.height, 1, self.format, offset)
  THEN Err(c, "DataLengthMismatch")
  ELSE LET c1 == bind_texture(c, TEXTURE_CUBE_MAP, self.id)
           c2 == CubeFaces(c1, offset, 0)
       IN Ok(TextureCubeMap_generate_mip_maps(c2, self))

TextureCubeMap_new(c, cpu, allocOk, formatOk) ==
  LET g == generate(c, allocOk) IN
  IF ~g.ok THEN g
  ELSE
    LET id == g.tex.id
        number_of_mip_maps ==
          calculate_number_of_mip_maps(cpu.mip_map_filter, cpu.width, cpu.height, 1)
        c1 == set_parameters(g.ctx, id, TEXTURE_CUBE_MAP)
        c2 == bind_texture(c1, TEXTURE_CUBE_MAP, id)
    IN
    IF ~formatOk THEN Err(c2, "UnsupportedFormat")
    ELSE
      LET c3 == tex_storage_2d(c2, TEXTURE_CUBE_MAP, number_of_mip_maps)
          texture == [kind |-> "TextureCubeMap", id |-> id, width |-> cpu.width,
                      height |-> cpu.height, depth |-> 1, format |-> cpu.format,
                      number_of_mip_maps |-> number_of_mip_maps]
          f == TextureCubeMap_fill(c3, texture, cpu.len)
      IN
      IF ~f.ok THEN Err(Texture_drop(f.ctx, texture), f.err)
      ELSE OkTex(f.ctx, texture)


(* ----------------------- ColorTargetTexture2DArray -------------------- *)
\* A constructor that plans the mip levels as for a single layer.
ColorTargetTexture2DArray_new_one_layer(c, width, height, depth, mip_map_filter, allocOk, formatOk) ==
  LET g == generate(c, allocOk) IN
  IF ~g.ok THEN g
  ELSE
    LET id == g.tex.id
        number_of_mip_maps ==
          calculate_number_of_mip_maps(mip_map_filter, width, height, 1)
        c1 == set_parameters(g.ctx, id, TEXTURE_2D_ARRAY)
        c2 == bind_texture(c1, TEXTURE_2D_ARRAY, id)
    IN
    IF ~formatOk THEN Err(c2, "UnsupportedFormat")
    ELSE OkTex(tex_storage_3d(c2, TEXTURE_2D_ARRAY, number_of_mip_maps),
               [kind |-> "ColorTargetTexture2DArray", id |-> id, width |-> width,
                height |-> height, depth |-> depth, format |-> "None",
                number_of_mip_maps |-> number_of_mip_maps])

ColorTargetTexture2DArray_new(c, width, height, depth, mip_map_filter, allocOk, formatOk) ==
  LET g == generate(c, allocOk) IN
  IF ~g.ok THEN g
  ELSE
    LET id == g.tex.id
        number_of_mip_maps ==
          calculate_number_of_mip_maps(mip_map_filter, width, height, depth)
        c1 == set_parameters(g.ctx, id, TEXTURE_2D_ARRAY)
        c2 == bind_texture(c1, TEXTURE_2D_ARRAY, id)
    IN
    IF ~formatOk THEN Err(c2, "UnsupportedFormat")
    ELSE OkTex(tex_storage_3d(c2, TEXTURE_2D_ARRAY, number_of_mip_maps),
               [kind |-> "ColorTargetTexture2DArray", id |-> id, width |-> width,
                height |-> height, depth |-> depth, format |-> "None",
                number_of_mip_maps |-> number_of_mip_maps])

(* ----------------------- DepthTargetTexture2DArray -------------------- *)
DepthTargetTexture2DArray_new(c, width, height, depth, allocOk) ==
  LET g == generate(c, allocOk) IN
  IF ~g.ok THEN g
  ELSE
    LET id == g.tex.id
        c1 == set_parameters(g.ctx, id, TEXTURE_2D_ARRAY)
        c2 == bind_texture(c1, TEXTURE_2D_ARRAY, id)
    IN OkTex(tex_storage_3d(c2, TEXTURE_2D_ARRAY, 1),
             [kind |-> "DepthTargetTexture2DArray", id |-> id, width |-> width,
              height |-> height, depth |-> depth, format |-> "None",
              number_of_mip_maps |-> 1])

(* ----------------------------- RenderTarget --------------------------- *)
\* A render target is the framebuffer that has the given textures attached;
\* the framebuffer is named after the handle of its texture.
RenderTarget_new_color(c, color_texture) ==
  [ctx |-> Log(c, Call("create_framebuffer", "", color_texture.id, 0, 0)),
   rt |-> [fb |-> color_texture.id, color |-> color_texture, depth |-> NoTexture]]

RenderTarget_new_depth(c, depth_texture) ==
  [ctx |-> Log(c, Call("create_framebuffer", "", depth_texture.id, 0, 0)),
   rt |-> [fb |-> depth_texture.id, color |-> NoTexture, depth |-> depth_texture]]

\* bind: the framebuffer bound to the target, its textures attached.
RenderTarget_bind(c, rt, target) ==
  LET c1 == bind_framebuffer(c, target, rt.fb)
      c2 == IF rt.color # NoTexture
            THEN ColorTargetTexture2D_bind_as_color_target(c1, rt.color, 0) ELSE c1
  IN IF rt.depth # NoTexture
     THEN DepthTargetTexture2D_bind_as_depth_target(c2, rt.depth) ELSE c2

\* The caller's draw closure: it may fail, and it may leave the screen
\* framebuffer bound instead of the one it was called under.
Renders == [fails : BOOLEAN, unbinds : BOOLEAN]

RunRender(c, render) ==
  Log(IF render.unbinds THEN [c EXCEPT !.fb[DRAW_FRAMEBUFFER] = 0] ELSE c,
      Call("render", "", 0, 0, 0))

\* clear_state: which components have a clear value, [color, depth].
ClearStates == [color : BOOLEAN, depth : {FALSE}]

clear(c, clear_state) ==
  Log(c, Call("clear", IF clear_state.color THEN "COLOR" ELSE "NONE",
              IF clear_state.depth THEN 1 ELSE 0, 0, 0))

\* write: bind, clear, run the closure, then unbind whether or not the
\* closure failed, restoring the framebuffer bound before.
RenderTarget_write(c, rt, clear_state, render) ==
  LET before == c.fb[DRAW_FRAMEBUFFER]
      c1 == RenderTarget_bind(c, rt, DRAW_FRAMEBUFFER)
      c2 == clear(c1, clear_state)
      c3 == RunRender(c2, render)
      c4 == bind_framebuffer(c3, DRAW_FRAMEBUFFER, before)
  IN IF render.fails THEN Err(c4, "RenderError") ELSE Ok(c4)

\* destination: [kind, tex], kind one of Screen, ColorTexture, DepthTexture.
Fits(viewport, tex) ==
  /\ viewport.x + viewport.width <= tex.width
  /\ viewport.y + viewport.height <= tex.height

CopyBlit(c, source, destination, viewport, write_mask) ==
  LET before == c.fb[DRAW_FRAMEBUFFER]
      c1 == bind_framebuffer(c, DRAW_FRAMEBUFFER, destination.tex.id)
      c2 == Log(c1, CallView("copy", write_mask, destination.tex.id, viewport))
  IN bind_framebuffer(c2, DRAW_FRAMEBUFFER, before)

\* copy_to: FormatMismatch for a depth source and a color destination or the
\* reverse, OutOfBounds for a viewport beyond the source or the destination,
\* else the copy of the channels of the write mask under the bind/unbind
\* scaffold.
RenderTarget_copy_to(c, rt, destination, viewport, write_mask) ==
  LET source == IF rt.color # NoTexture THEN rt.color ELSE rt.depth IN
  IF \/ destination.kind = "ColorTexture" /\ rt.color = NoTexture
     \/ destination.kind = "DepthTexture" /\ rt.depth = NoTexture
  THEN Err(c, "FormatMismatch")
  ELSE IF \/ ~Fits(viewport, source)
          \/ destination.kind # "Screen" /\ ~Fits(viewport, destination.tex)
  THEN Err(c, "OutOfBounds")
  ELSE Ok(CopyBlit(c, source, destination, viewport, write_mask))

(* --------------------- render-target texture methods ------------------ *)
\* A write that returns the closure's outcome at once, the render target
\* still bound.
ColorTargetTexture2D_write_leaves_bound(c, self, clear_state, render) ==
  LET r == RenderTarget_new_color(c, self)
      c1 == RenderTarget_bind(r.ctx, r.rt, DRAW_FRAMEBUFFER)
      c2 == clear(c1, clear_state)
      c3 == RunRender(c2, render)
  IN IF render.fails THEN Err(c3, "RenderError") ELSE Ok(c3)

ColorTargetTexture2D_write(c, self, clear_state, render) ==
  LET r == RenderTarget_new_color(c, self)
  IN RenderTarget_write(r.ctx, r.rt, clear_state, render)

ColorTargetTexture2D_copy_to(c, self, destination, viewport, write_mask) ==
  LET r == RenderTarget_new_color(c, self)
  IN RenderTarget_copy_to(r.ctx, r.rt, destination, viewport, write_mask)

\* A read that looks at the format only after the render target is bound.
ColorTargetTexture2D_read_checks_late(c, self, viewport) ==
  LET pixels == viewport.width * viewport.height * color_channel_count(self.format)
      r == RenderTarget_new_color(c, self)
      c1 == RenderTarget_bind(r.ctx, r.rt, DRAW_FRAMEBUFFER)
      c2 == RenderTarget_bind(c1, r.rt, READ_FRAMEBUFFER)
  IN IF self.format # "RGBA" THEN Err(c2, "UnsupportedReadFormat")
     ELSE OkOut(T_read(c2, viewport), pixels)

\* A read that sizes the pixel vector after the texture, not the viewport.
ColorTargetTexture2D_read_whole_texture(c, self, viewport) ==
  IF self.format # "RGBA" THEN Err(c, "UnsupportedReadFormat")
  ELSE
    LET pixels == self.width * self.height * color_channel_count(self.format)
        r == RenderTarget_new_color(c, self)
        c1 == RenderTarget_bind(r.ctx, r.rt, DRAW_FRAMEBUFFER)
        c2 == RenderTarget_bind(c1, r.rt, READ_FRAMEBUFFER)
        c3 == T_read(c2, viewport)
    IN OkOut(c3, pixels)

ColorTargetTexture2D_read(c, self, viewport) ==
  IF self.format # "RGBA" THEN Err(c, "UnsupportedReadFormat")
  ELSE
    LET pixels == viewport.width * viewport.height * color_channel_count(self.format)
        r == RenderTarget_new_color(c, self)
        c1 == RenderTarget_bind(r.ctx, r.rt, DRAW_FRAMEBUFFER)
        c2 == RenderTarget_bind(c1, r.rt, READ_FRAMEBUFFER)
        c3 == T_read(c2, viewport)
    IN OkOut(c3, pixels)


\* clear_state: whether a depth clear value is given (Option<f32>).
DepthTargetTexture2D_write(c, self, clear_state, render) ==
  LET r == RenderTarget_new_depth(c, self)
  IN RenderTarget_write(r.ctx, r.rt, [color |-> FALSE, depth |-> clear_state], render)

\* A depth copy that passes the mask of all channels.
DepthTargetTexture2D_copy_to_all_channels(c, self, destination, viewport) ==
  LET r == RenderTarget_new_depth(c, self)
  IN RenderTarget_copy_to(r.ctx, r.rt, destination, viewport, "COLOR_AND_DEPTH")

DepthTargetTexture2D_copy_to(c, self, destination, viewport) ==
  LET r == RenderTarget_new_depth(c, self)
  IN RenderTarget_copy_to(r.ctx, r.rt, destination, viewport, WriteMask_DEPTH)

\* RenderTargetArray: a render target on one layer of an array texture.
RenderTargetArray_new_depth(c, depth_texture_array) ==
  RenderTarget_new_depth(c, depth_texture_array)

RenderTargetArray_copy_to(c, rt, color_layer, depth_layer, destination, viewport, write_mask) ==
  RenderTarget_copy_to(c, rt, destination, viewport, write_mask)

DepthTargetTexture2DArray_copy_to(c, self, depth_layer, destination, viewport) ==
  LET r == RenderTargetArray_new_depth(c, self)
  IN RenderTargetArray_copy_to(r.ctx, r.rt, 0, depth_layer, destination, viewport,
                               WriteMask_DEPTH)

\* Texture::bind, TextureCube::bind, TextureArray::bind.
TargetOf(kind) ==
  CASE kind \in {"Texture2D", "ColorTargetTexture2D", "DepthTargetTexture2D"} -> TEXTURE_2D
    [] kind = "TextureCubeMap" -> TEXTURE_CUBE_MAP
    [] kind \in {"ColorTargetTexture2DArray", "DepthTargetTexture2DArray"} -> TEXTURE_2D_ARRAY

Texture_bind(c, self, location) == bind_at(c, self.id, TargetOf(self.kind), location)


(* ------------------------------ actions ------------------------------- *)
\* The state after an operation with outcome r; `last` keeps the operation,
\* its inputs (data length, viewport, destination kind or closure outcome),
\* its result and the driver calls it issued.
Commit(op, slot, len, view, arg, r, newTextures) ==
  /\ textures' = newTextures
  /\ nextId' = r.ctx.nextId
  /\ deleted' = r.ctx.deleted
  /\ boundTex' = r.ctx.tex
  /\ boundFb' = r.ctx.fb
  /\ constructed' = IF r.tex # NoTexture /\ r.tex.kind # "None"
                    THEN constructed \cup {r.tex.id} ELSE constructed
  /\ last' = [op |-> op, slot |-> slot, ok |-> r.ok, err |-> r.err,
              len |-> len, out |-> r.out, view |-> view, arg |-> arg,
              calls |-> r.ctx.calls]

\* An operation on the texture of a slot: the textures stay as they are.
CommitOp(op, slot, len, view, arg, r) ==
  Commit(op, slot, len, view, arg, [r EXCEPT !.tex = NoTexture], textures)

\* A constructor: the texture is stored when one was returned; `last` keeps
\* the mip filter that was asked for.
CommitNew(op, slot, mip_map_filter, r) ==
  Commit(op, slot, 0, NoView, mip_map_filter, r,
         IF r.ok THEN [textures EXCEPT ![slot] = r.tex] ELSE textures)

CanConstruct(slot) == textures[slot] = NoTexture /\ nextId < MaxHandles

NewTexture2D(slot, cpu, allocOk, formatOk) ==
  /\ CanConstruct(slot)
  /\ CommitNew("Texture2D::new", slot, cpu.mip_map_filter, Texture2D_new(Ctx, cpu, allocOk, formatOk))

NewTextureCubeMap(slot, cpu, allocOk, formatOk) ==
  /\ CanConstruct(slot)
  /\ CommitNew("TextureCubeMap::new", slot, cpu.mip_map_filter,
               TextureCubeMap_new(Ctx, cpu, allocOk, formatOk))

NewColorTargetTexture2D(slot, width, height, mip_map_filter, format, allocOk, formatOk) ==
  /\ CanConstruct(slot)
  /\ CommitNew("ColorTargetTexture2D::new", slot, mip_map_filter,
               ColorTargetTexture2D_new(Ctx, width, height, mip_map_filter, format,
                                        allocOk, formatOk))

NewDepthTargetTexture2D(slot, width, height, allocOk) ==
  /\ CanConstruct(slot)
  /\ CommitNew("DepthTargetTexture2D::new", slot, "None",
               DepthTargetTexture2D_new(Ctx, width, height, allocOk))

NewColorTargetTexture2DArray(slot, width, height, depth, mip_map_filter, allocOk, formatOk) ==
  /\ CanConstruct(slot)
  /\ CommitNew("ColorTargetTexture2DArray::new", slot, mip_map_filter,
               ColorTargetTexture2DArray_new(Ctx, width, height, depth, mip_map_filter,
                                             allocOk, formatOk))

NewDepthTargetTexture2DArray(slot, width, height, depth, allocOk) ==
  /\ CanConstruct(slot)
  /\ CommitNew("DepthTargetTexture2DArray::new", slot, "None",
               DepthTargetTexture2DArray_new(Ctx, width, height, depth, allocOk))

DropTexture(slot) ==
  /\ textures[slot] # NoTexture
  /\ Commit("drop", slot, 0, NoView, "", Ok(Texture_drop(Ctx, textures[slot])),
            [textures EXCEPT ![slot] = NoTexture])

BindTexture(slot, location) ==
  /\ textures[slot] # NoTexture
  /\ CommitOp("bind", slot, 0, NoView, "", Ok(Texture_bind(Ctx, textures[slot], location)))

FillTexture2D(slot, len) ==
  /\ textures[slot].kind = "Texture2D"
  /\ CommitOp("Texture2D::fill", slot, len, NoView, "",
              Texture2D_fill(Ctx, textures[slot], len))

FillTextureCubeMap(slot, len) ==
  /\ textures[slot].kind = "TextureCubeMap"
  /\ CommitOp("TextureCubeMap::fill", slot, len, NoView, "",
              TextureCubeMap_fill(Ctx, textures[slot], len))

ReadColor(slot, viewport) ==
  /\ textures[slot].kind = "ColorTargetTexture2D"
  /\ CommitOp("ColorTargetTexture2D::read", slot, 0, viewport, "",
              ColorTargetTexture2D_read(Ctx, textures[slot], viewport))

RenderArg(render) ==
  IF render.fails THEN "render fails" ELSE "render succeeds"

WriteColor(slot, clear_state, render) ==
  /\ textures[slot].kind = "ColorTargetTexture2D"
  /\ CommitOp("ColorTargetTexture2D::write", slot, 0, NoView, RenderArg(render),
              ColorTargetTexture2D_write(Ctx, textures[slot], clear_state, render))

WriteDepth(slot, clear_state, render) ==
  /\ textures[slot].kind = "DepthTargetTexture2D"
  /\ CommitOp("DepthTargetTexture2D::write", slot, 0, NoView, RenderArg(render),
              DepthTargetTexture2D_write(Ctx, textures[slot], clear_state, render))

\* The copy destinations there are: the screen and the target textures.
Destinations ==
  {[kind |-> "Screen", tex |-> NoTexture]}
  \cup {[kind |-> "ColorTexture", tex |-> textures[d]] :
          d \in {s \in Slots : textures[s].kind = "ColorTargetTexture2D"}}
  \cup {[kind |-> "DepthTexture", tex |-> textures[d]] :
          d \in {s \in Slots : textures[s].kind = "DepthTargetTexture2D"}}

CopyColor(slot, destination, viewport, write_mask) ==
  /\ textures[slot].kind = "ColorTargetTexture2D"
  /\ CommitOp("ColorTargetTexture2D::copy_to", slot, 0, viewport, destination.kind,
              ColorTargetTexture2D_copy_to(Ctx, textures[slot], destination, viewport,
                                           write_mask))

CopyDepth(slot, destination, viewport) ==
  /\ textures[slot].kind = "DepthTargetTexture2D"
  /\ CommitOp("DepthTargetTexture2D::copy_to", slot, 0, viewport, destination.kind,
              DepthTargetTexture2D_copy_to(Ctx, textures[slot], destination, viewport))

CopyDepthArray(slot, depth_layer, destination, viewport) ==
  /\ textures[slot].kind = "DepthTargetTexture2DArray"
  /\ depth_layer < textures[slot].depth
  /\ CommitOp("DepthTargetTexture2DArray::copy_to", slot, 0, viewport, destination.kind,
              DepthTargetTexture2DArray_copy_to(Ctx, textures[slot], depth_layer,
                                                destination, viewport))

(* --------------------------- input domains ---------------------------- *)
\* The data lengths tried against the length a texture needs.
DataLens(expected) ==
  { n \in (expected - MaxShort) .. (expected + MaxExtra) : n >= 0 }

\* CPU textures of the given sizes and formats for a texture of `faces`
\* images, with every data length around the needed one.
CpuTextures(dims, formats, filters, faces) ==
  UNION { [width : {w}, height : {h}, format : {f}, mip_map_filter : filters,
           len : DataLens(faces * w * h * color_channel_count(f))] :
          <<w, h, f>> \in dims \X dims \X formats }

NeededLen(tex) ==
  (IF tex.kind = "TextureCubeMap" THEN 6 ELSE 1)
    * tex.width * tex.height * color_channel_count(tex.format)

(* ----------------- the life cycle of the texture objects --------------- *)
InitLast ==
  [op |-> "init", slot |-> 0, ok |-> TRUE, err |-> "", len |-> 0, out |-> 0,
   view |-> NoView, arg |-> "", calls |-> <<>>]

Init ==
  /\ textures = [s \in Slots |-> NoTexture]
  /\ nextId = 0
  /\ deleted = [h \in Handles |-> 0]
  /\ constructed = {}
  /\ boundTex = [t \in TexTargets |-> 0]
  /\ boundFb = [t \in FbTargets |-> 0]
  /\ last = InitLast

\* The life cycle does not depend on the size or the number of channels:
\* one-texel textures of one format, with data of the needed length and
\* with data one element short.
LifeFormats == {"RGBA"}

LifeCpuTextures(faces) ==
  {[width |-> 1, height |-> 1, format |-> f, mip_map_filter |-> "None", len |-> n] :
     <<f, n>> \in {<<g, faces * color_channel_count(g) - k>> : g \in LifeFormats, k \in {0, 1}}}

Next ==
  \E slot \in Slots :
    \/ \E cpu \in LifeCpuTextures(1), allocOk, formatOk \in BOOLEAN :
         NewTexture2D(slot, cpu, allocOk, formatOk)
    \/ \E cpu \in LifeCpuTextures(6), allocOk, formatOk \in BOOLEAN :
         NewTextureCubeMap(slot, cpu, allocOk, formatOk)
    \/ \E f \in LifeFormats, allocOk, formatOk \in BOOLEAN :
         NewColorTargetTexture2D(slot, 1, 1, "None", f, allocOk, formatOk)
    \/ \E allocOk \in BOOLEAN : NewDepthTargetTexture2D(slot, 1, 1, allocOk)
    \/ \E allocOk, formatOk \in BOOLEAN :
         NewColorTargetTexture2DArray(slot, 1, 1, 1, "None", allocOk, formatOk)
    \/ \E allocOk \in BOOLEAN : NewDepthTargetTexture2DArray(slot, 1, 1, 1, allocOk)
    \/ DropTexture(slot)
    \/ BindTexture(slot, 0)

Spec == Init /\ [][Next]_vars

(* ------------------- states after two constructions -------------------- *)
EmptyCtx ==
  [tex |-> [t \in TexTargets |-> 0], fb |-> [t \in FbTargets |-> 0],
   deleted |-> [h \in Handles |-> 0], nextId |-> 0, calls |-> <<>>]

\* The state in which the constructors' outcomes r1, then r2, both
\* successful, have been stored in slots 1 and 2.
InitFrom(r1, r2) ==
  /\ r1.ok /\ r2.ok
  /\ textures = [s \in Slots |-> IF s = 1 THEN r1.tex ELSE IF s = 2 THEN r2.tex
                                 ELSE NoTexture]
  /\ nextId = r2.ctx.nextId
  /\ deleted = r2.ctx.deleted
  /\ constructed = {r1.tex.id, r2.tex.id}
  /\ boundTex = r2.ctx.tex
  /\ boundFb = r2.ctx.fb
  /\ last = InitLast

(* ------------------------- pixel upload (fill) ------------------------ *)
\* Slot 1: a Texture2D or a TextureCubeMap of any size, format and mip
\* filter. Slot 2: a one-texel texture of another handle.
FillSubjects(c) ==
  {Texture2D_new(c, cpu, TRUE, TRUE) : cpu \in CpuTextures(Dims, Formats, MipFilters, 1)}
  \cup {TextureCubeMap_new(c, cpu, TRUE, TRUE) :
          cpu \in CpuTextures(Dims, Formats, MipFilters, 6)}

FillOthers(c) ==
  {Texture2D_new(c, [width |-> 1, height |-> 1, format |-> "R",
                     mip_map_filter |-> "None", len |-> 1], TRUE, TRUE),
   TextureCubeMap_new(c, [width |-> 1, height |-> 1, format |-> "R",
                          mip_map_filter |-> "None", len |-> 6], TRUE, TRUE),
   ColorTargetTexture2D_new(c, 1, 1, "None", "RGBA", TRUE, TRUE),
   ColorTargetTexture2D_new(c, 1, 1, "None", "RGB", TRUE, TRUE)}

InitFill ==
  \E r1 \in FillSubjects(EmptyCtx) : \E r2 \in FillOthers(r1.ctx) : InitFrom(r1, r2)

FillLens(slot) ==
  IF textures[slot].kind \in {"Texture2D", "TextureCubeMap"}
  THEN DataLens(NeededLen(textures[slot])) ELSE {}

NextFill ==
  \E slot \in Slots :
    \/ \E len \in FillLens(slot) : FillTexture2D(slot, len)
    \/ \E len \in FillLens(slot) : FillTextureCubeMap(slot, len)
    \/ BindTexture(slot, 0)
    \/ \E viewport \in Viewports : ReadColor(slot, viewport)

SpecFill == InitFill /\ [][NextFill]_vars

(* --------------------- render targets: read, write -------------------- *)
\* Slot 1: a color texture of any size and format, or a depth texture of
\* any size.
TargetSubjects(c) ==
  {ColorTargetTexture2D_new(c, w, h, "None", f, TRUE, TRUE) :
     <<w, h, f>> \in Dims \X Dims \X Formats}
  \cup {DepthTargetTexture2D_new(c, w, h, TRUE) : <<w, h>> \in Dims \X Dims}

\* Slot 2: a one-texel target texture.
TargetOthers(c) ==
  {ColorTargetTexture2D_new(c, 1, 1, "None", "RGBA", TRUE, TRUE),
   DepthTargetTexture2D_new(c, 1, 1, TRUE)}

InitTarget ==
  \E r1 \in TargetSubjects(EmptyCtx) : \E r2 \in TargetOthers(r1.ctx) : InitFrom(r1, r2)

NextTarget ==
  \E slot \in Slots :
    \/ \E viewport \in Viewports : ReadColor(slot, viewport)
    \/ \E clear_state \in ClearStates, render \in Renders :
         WriteColor(slot, clear_state, render)
    \/ \E clear_state \in BOOLEAN, render \in Renders :
         WriteDepth(slot, clear_state, render)

SpecTarget == InitTarget /\ [][NextTarget]_vars

(* ------------------------- render targets: copy ----------------------- *)
\* Slot 1: the source, a target texture of any kind and size. Slot 2: a
\* one-texel color or depth texture, the destination besides the screen.
CopySubjects(c) ==
  {ColorTargetTexture2D_new(c, w, h, "None", "RGBA", TRUE, TRUE) :
     <<w, h>> \in Dims \X Dims}
  \cup {DepthTargetTexture2D_new(c, w, h, TRUE) : <<w, h>> \in Dims \X Dims}
  \cup {DepthTargetTexture2DArray_new(c, w, h, d, TRUE) :
          <<w, h, d>> \in Dims \X Dims \X Dims}

InitCopy ==
  \E r1 \in CopySubjects(EmptyCtx) : \E r2 \in TargetOthers(r1.ctx) : InitFrom(r1, r2)

\* The square viewports on the diagonal: within a texture, and beyond it.
CopyViewports == {v \in Viewports : v.x = v.y /\ v.width = v.height}

NextCopy ==
  \E slot \in Slots :
    \/ \E destination \in Destinations, viewport \in CopyViewports, write_mask \in WriteMasks :
         CopyColor(slot, destination, viewport, write_mask)
    \/ \E destination \in Destinations, viewport \in CopyViewports :
         CopyDepth(slot, destination, viewport)
    \/ \E destination \in Destinations, viewport \in CopyViewports,
           depth_layer \in 0 .. MaxDim - 1 :
         CopyDepthArray(slot, depth_layer, destination, viewport)

SpecCopy == InitCopy /\ [][NextCopy]_vars

(* ------------------------- mip level planning ------------------------- *)
\* largest width / height / layer count given to a constructor here
MaxMipDim == 5

MipDims == 1 .. MaxMipDim

NextMip ==
  \/ \E w \in MipDims, h \in MipDims, m \in MipFilters :
       NewTexture2D(1, [width |-> w, height |-> h, format |-> "R",
                        mip_map_filter |-> m, len |-> w * h], TRUE, TRUE)
  \/ \E w \in MipDims, h \in MipDims, m \in MipFilters :
       NewTextureCubeMap(1, [width |-> w, height |-> h, format |-> "R",
                             mip_map_filter |-> m, len |-> 6 * w * h], TRUE, TRUE)
  \/ \E w \in MipDims, h \in MipDims, m \in MipFilters :
       NewColorTargetTexture2D(1, w, h, m, "RGBA", TRUE, TRUE)
  \/ \E w \in MipDims, h \in MipDims, d \in MipDims, m \in MipFilters :
       NewColorTargetTexture2DArray(1, w, h, d, m, TRUE, TRUE)
  \/ DropTexture(1)

SpecMip == Init /\ [][NextMip]_vars

(* ====================================================================== *)
(*                                 claims                                 *)
(* ====================================================================== *)
\* The texture the last operation ran on.
Subject == textures[last.slot]

CallsOf(fn) == {i \in 1 .. Len(last.calls) : last.calls[i].fn = fn}

(* C1: TextureCubeMap::fill fails with a data-length error for every data  *)
(* length other than 6 * width * height * channel_count, and then uploads  *)
(* no face.                                                                *)
C1_CubeFillRejectsEveryWrongLength ==
  (last.op = "TextureCubeMap::fill" /\ last.len # NeededLen(Subject))
    => /\ ~last.ok
       /\ last.err = "DataLengthMismatch"
       /\ CallsOf("upload_pixels") = {}

(* C2: Texture2D::fill with a data length other than width * height *      *)
(* channel_count returns the data-length error for every format, issues no *)
(* driver call, and leaves the bindings and the textures as they were.     *)
C2_Fill2DWrongLengthIsRejectedUntouched ==
  [][(last'.op = "Texture2D::fill" /\ last'.len # NeededLen(textures[last'.slot]))
       => /\ ~last'.ok
          /\ last'.err = "DataLengthMismatch"
          /\ last'.calls = <<>>
          /\ boundTex' = boundTex
          /\ boundFb' = boundFb
          /\ textures' = textures]_vars

\* A fill one element short was rejected, on a texture of each format, while
\* another texture's handle is bound to the target.
C2_Witness ==
  /\ last.op = "Texture2D::fill"
  /\ last.len = NeededLen(Subject) - 1
  /\ ~last.ok
  /\ Subject.format = "RGBA"
  /\ boundTex[TEXTURE_2D] \notin {0, Subject.id}

(* C3: every scoped operation restores the global binding state: after     *)
(* Texture2D::fill, TextureCubeMap::fill or ColorTargetTexture2D::read     *)
(* returns, with a result or an error, the texture bound to each target    *)
(* and the bound draw and read framebuffers are those of before the call.  *)
ScopedOps == {"Texture2D::fill", "TextureCubeMap::fill", "ColorTargetTexture2D::read"}

Live == {s \in Slots : textures[s] # NoTexture}

\* C4: over any sequence of constructions and destructions, the handle of
\* a successfully constructed texture has not been passed to delete_texture
\* while the texture lives, has been passed to it exactly once when the
\* texture has been destroyed, and no two live textures hold the same handle.
C4_HandleDeletedOnceAtDestruction ==
  /\ \A s \in Live : /\ textures[s].id \in constructed
                      /\ deleted[textures[s].id] = 0
  /\ \A h \in constructed : (\A s \in Live : textures[s].id # h) => deleted[h] = 1
  /\ \A s1, s2 \in Live : s1 # s2 => textures[s1].id # textures[s2].id

\* A texture has just been destroyed, its handle deleted, while another
\* texture is alive.
C4_Witness ==
  /\ last.op = "drop" /\ CallsOf("delete_texture") # {}
  /\ \E h \in constructed : deleted[h] = 1
  /\ Live # {}


\* C5: ColorTargetTexture2D::read on a texture whose format is not RGBA
\* returns an error for every viewport, having issued no driver call (no
\* render target created, no framebuffer bound, no pixel read) and with
\* every binding as it was.
C5_ReadOfNonRgbaFailsUntouched ==
  [][(last'.op = "ColorTargetTexture2D::read" /\ textures[last'.slot].format # "RGBA")
       => /\ ~last'.ok /\ last'.err = "UnsupportedReadFormat"
          /\ last'.calls = <<>>
          /\ boundFb' = boundFb /\ boundTex' = boundTex]_vars

\* A read of a texture that is not RGBA has failed while a framebuffer
\* other than the screen was bound for reading.
C5_Witness ==
  /\ last.op = "ColorTargetTexture2D::read" /\ Subject.format # "RGBA"
  /\ ~last.ok
  /\ boundFb[READ_FRAMEBUFFER] # 0

CopyOps ==
  {"ColorTargetTexture2D::copy_to", "DepthTargetTexture2D::copy_to",
   "DepthTargetTexture2DArray::copy_to"}

DepthCopyOps == {"DepthTargetTexture2D::copy_to", "DepthTargetTexture2DArray::copy_to"}

\* The last operation was a read or copy that no rule but the one on the
\* viewport can reject: a read of an RGBA texture, or a copy to the screen
\* or to a texture of the source's kind.
ViewportDecides ==
  \/ last.op = "ColorTargetTexture2D::read" /\ Subject.format = "RGBA"
  \/ last.op = "ColorTargetTexture2D::copy_to" /\ last.arg # "DepthTexture"
  \/ last.op \in DepthCopyOps /\ last.arg # "ColorTexture"

\* C6: a read or copy whose viewport exceeds the extent of the texture it is
\* called on (x + width > texture width or y + height > texture height) is
\* rejected with an OutOfBounds error.
C6_ViewportBeyondExtentIsRejected ==
  (ViewportDecides /\ ~Fits(last.view, Subject))
    => (~last.ok /\ last.err = "OutOfBounds")

WriteOps == {"ColorTargetTexture2D::write", "DepthTargetTexture2D::write"}

C9_DepthAndColorDoNotMix ==
  /\ (last.op \in DepthCopyOps /\ last.arg = "ColorTexture")
       => (~last.ok /\ last.err = "FormatMismatch" /\ CallsOf("copy") = {})
  /\ (last.op = "ColorTargetTexture2D::copy_to" /\ last.arg = "DepthTexture")
       => (~last.ok /\ last.err = "FormatMismatch" /\ CallsOf("copy") = {})
  /\ last.op \in DepthCopyOps
       => \A i \in CallsOf("copy") : last.calls[i].target = WriteMask_DEPTH

\* A depth texture has copied itself, under the depth mask, to the screen
\* or to a depth texture.
C9_Witness ==
  /\ last.op = "DepthTargetTexture2D::copy_to" /\ last.ok
  /\ \E i \in CallsOf("copy") : last.calls[i].target = WriteMask_DEPTH

RECURSIVE Pow2(_)
Pow2(n) == IF n = 0 THEN 1 ELSE 2 * Pow2(n - 1)

MipOps ==
  {"Texture2D::new", "TextureCubeMap::new", "ColorTargetTexture2D::new",
   "ColorTargetTexture2DArray::new"}

\* The largest of the sizes the mip levels of a texture are planned from:
\* the layer count is one of them for an array only.
LargestSide(tex) ==
  Max(Max(tex.width, tex.height),
      IF tex.kind = "ColorTargetTexture2DArray" THEN tex.depth ELSE 1)

\* C10: the mip level count a constructor stores is 1 when no mip filter
\* was asked for, and floor(log2(max(width, height, depth))) + 1 when one
\* was: the count m >= 1 with 2^(m-1) <= max(width, height, depth) < 2^m,
\* so that the last level is still one texel wide.
C10_MipLevelCount ==
  (last.op \in MipOps /\ last.ok) =>
    LET m == Subject.number_of_mip_maps
        side == LargestSide(Subject)
    IN IF last.arg = "None" THEN m = 1
       ELSE /\ m >= 1
            /\ Pow2(m - 1) <= side /\ side < Pow2(m)
            /\ side \div Pow2(m - 1) >= 1

\* An array texture with more layers than texels along a side got, with a
\* mip filter, the level count of its layer count.
C10_Witness ==
  /\ last.op = "ColorTargetTexture2DArray::new" /\ last.ok /\ last.arg # "None"
  /\ Subject.depth >= 4 /\ Subject.width = 1 /\ Subject.height = 1
  /\ Subject.number_of_mip_maps = 3


\* C11: a successful ColorTargetTexture2D::read returns exactly
\* viewport.width * viewport.height * 4 elements, for every viewport, a
\* viewport of zero width or zero height included.
C11_ReadLengthIsViewportAreaTimesFour ==
  (last.op = "ColorTargetTexture2D::read" /\ last.ok)
    => last.out = last.view.width * last.view.height * 4

\* A read of one texel of a texture that is larger than the viewport has
\* returned four elements.
C11_Witness ==
  /\ last.op = "ColorTargetTexture2D::read" /\ last.ok
  /\ last.view.width = 1 /\ last.view.height = 1 /\ last.out = 4
  /\ Subject.width * Subject.height > 1


FillOps == {"Texture2D::fill", "TextureCubeMap::fill"}

\* The uploads of the last operation are those of one whole image of the
\* texture: for a Texture2D one upload of all the data to TEXTURE_2D, for a
\* cube map six uploads in a row, the k-th to face
\* TEXTURE_CUBE_MAP_POSITIVE_X + k (+X, -X, +Y, -Y, +Z, -Z) from the k-th
\* slice of width * height * channels elements of the data.
WholeBaseLevelUploaded ==
  LET uploads == CallsOf("upload_pixels")
      offset == Subject.width * Subject.height * color_channel_count(Subject.format)
  IN IF Subject.kind = "Texture2D"
     THEN \E i \in 1 .. Len(last.calls) :
            /\ uploads = {i}
            /\ last.calls[i] = Call("upload_pixels", TEXTURE_2D, 0, 0, last.len)
     ELSE \E first \in 1 .. Len(last.calls) :
            /\ uploads = first .. first + 5
            /\ \A k \in 0 .. 5 :
                 last.calls[first + k] =
                   Call("upload_pixels", TEXTURE_CUBE_MAP_POSITIVE_X, k,
                        k * offset, (k + 1) * offset)

\* C12: after a successful fill of a Texture2D or a TextureCubeMap,
\* generate_mipmap has been issued once if the texture has more than one
\* level and not at all if it has one; it comes after every upload of the
\* base level (for a cube map the six faces, in the order +X, -X, +Y, -Y,
\* +Z, -Z, from six consecutive slices of equal length) and is issued on
\* the texture's target while the texture's handle is bound to it.
C12_MipMapsRegeneratedAfterUpload ==
  (last.op \in FillOps /\ last.ok) =>
    /\ Cardinality(CallsOf("generate_mipmap"))
         = (IF Subject.number_of_mip_maps > 1 THEN 1 ELSE 0)
    /\ WholeBaseLevelUploaded
    /\ \A g \in CallsOf("generate_mipmap") :
         /\ \A u \in CallsOf("upload_pixels") : u < g
         /\ last.calls[g] = Call("generate_mipmap", TargetOf(Subject.kind), Subject.id, 0, 0)

\* A cube map of two levels has been filled: six faces uploaded, then the
\* mip maps regenerated.
C12_Witness ==
  /\ last.op = "TextureCubeMap::fill" /\ last.ok
  /\ Subject.number_of_mip_maps > 1
  /\ Cardinality(CallsOf("upload_pixels")) = 6
  /\ CallsOf("generate_mipmap") # {}


NewOps ==
  {"Texture2D::new", "TextureCubeMap::new", "ColorTargetTexture2D::new",
   "DepthTargetTexture2D::new", "ColorTargetTexture2DArray::new",
   "DepthTargetTexture2DArray::new"}

\* C13: when a constructor has returned an error, every handle it had
\* allocated has been passed to delete_texture exactly once.
C13_FailedConstructorLeavesNoHandle ==
  (last.op \in NewOps /\ ~last.ok) =>
    \A i \in CallsOf("create_texture") : deleted[last.calls[i].id] = 1

====================================================================
